---- MODULE Spec2Model ----
(***************************************************************************)
(* dumbwaiter: the extract-transform-load pipeline for the NYPL menus      *)
(* data (dumbwaiter/pipeline.py).  The module models                       *)
(*   - the tables read from the four CSV files as positional data frames   *)
(*     (a list of column labels, an index value and a tuple of cell        *)
(*     values per row) and load_and_tranform() as operators on them;       *)
(*   - reshape_data(), the mapper from a merged row to an indexing action; *)
(*   - server(), the set-up of the index 'menus' on the search engine;     *)
(*   - load(), the run: server(), load_and_tranform(), the loop over the   *)
(*     acknowledgements of helpers.streaming_bulk, the top-level handler.  *)
(* The search engine and the bulk helper are external: the engine is the   *)
(* state of the one index the program touches, a call to it either takes   *)
(* effect or raises.                                                       *)
(***************************************************************************)
EXTENDS Integers, Sequences, FiniteSets, TLC

(***************************************************************************)
(* Bounds of the model.                                                    *)
(***************************************************************************)
\* rows of MenuItem.csv in a source directory
MaxItems == 3
\* actions helpers.streaming_bulk sends in one request: the call passes
\* chunk_size=1000; the model scales it to the number of rows it explores
ChunkSize == 2
\* consecutive runs of load() against the same engine
MaxRuns == 2
\* consecutive calls of server() in the specification of server() alone
MaxServerCalls == 2
\* characters of an argument of normalize_names and fingerprint
MaxLen == 4

(***************************************************************************)
(* Sequences.                                                              *)
(***************************************************************************)
Range(s) == {s[i] : i \in 1..Len(s)}

Without(s, k) == SubSeq(s, 1, k - 1) \o SubSeq(s, k + 1, Len(s))

RECURSIVE Flatten(_)
Flatten(ss) == IF ss = <<>> THEN <<>> ELSE Head(ss) \o Flatten(Tail(ss))

Min(a, b) == IF a < b THEN a ELSE b

RECURSIVE SumOver(_, _)
SumOver(f, S) ==
    IF S = {} THEN 0
    ELSE LET x == CHOOSE y \in S : TRUE IN f[x] + SumOver(f, S \ {x})

(***************************************************************************)
(* Data frames.  A frame is [cols, rows]; a row is [ix, v, src]: the index *)
(* value, the cell values in column order, and the number of the           *)
(* MenuItem.csv line the row descends from (0 for the other tables), a     *)
(* history field the program does not have.                                *)
(***************************************************************************)
HasCol(cols, name) == \E i \in 1..Len(cols) : cols[i] = name

ColIdx(cols, name) == CHOOSE i \in 1..Len(cols) : cols[i] = name

Cell(df, row, name) == row.v[ColIdx(df.cols, name)]

\* pd.DataFrame.from_csv(path, index_col=...): the named column becomes the
\* index and leaves the columns
from_csv(csv, index_col, tracked) ==
    LET k == ColIdx(csv.cols, index_col)
    IN [cols |-> Without(csv.cols, k),
        rows |-> [i \in 1..Len(csv.rows) |->
                    [ix  |-> csv.rows[i][k],
                     v   |-> Without(csv.rows[i], k),
                     src |-> IF tracked THEN i ELSE 0]]]

\* df[[names]]
Project(df, names) ==
    [cols |-> names,
     rows |-> [i \in 1..Len(df.rows) |->
                 [df.rows[i] EXCEPT
                     !.v = [j \in 1..Len(names) |-> Cell(df, df.rows[i], names[j])]]]]

\* the test of the comprehension turned round: n in keep
DiscardedKept(df, keep) == SelectSeq(df.cols, LAMBDA n : n \in keep)

\* [n for n in df.columns if n not in keep]
Discarded(df, keep) == SelectSeq(df.cols, LAMBDA n : n \notin keep)

\* df[name] = df.<col>.map(f): a new column at the end
AddColumn(df, name, vals) ==
    [cols |-> Append(df.cols, name),
     rows |-> [i \in 1..Len(df.rows) |->
                 [df.rows[i] EXCEPT !.v = Append(@, vals[i])]]]

\* df.columns = names
SetColumns(df, names) == [df EXCEPT !.cols = names]

\* df.reset_index(): the index becomes the first column
reset_index(df, ixname) ==
    [cols |-> <<ixname>> \o df.cols,
     rows |-> [i \in 1..Len(df.rows) |->
                 [df.rows[i] EXCEPT !.v = <<df.rows[i].ix>> \o @]]]

\* pd.merge(left, right, left_on=col, right_index=True): inner join, the
\* result keeps the index of the left frame
MergeLeftOn(left, right, col) ==
    [cols |-> left.cols \o right.cols,
     rows |-> Flatten([i \in 1..Len(left.rows) |->
                 LET l == left.rows[i]
                     m == SelectSeq(right.rows,
                                    LAMBDA r : r.ix = Cell(left, l, col))
                 IN [j \in 1..Len(m) |->
                        [ix |-> l.ix, v |-> l.v \o m[j].v, src |-> l.src]]])]

\* pd.merge(left, right, left_index=True, right_on=col): inner join, the
\* result keeps the index of the right frame
MergeRightOn(left, right, col) ==
    [cols |-> left.cols \o right.cols,
     rows |-> Flatten([i \in 1..Len(left.rows) |->
                 LET l == left.rows[i]
                     m == SelectSeq(right.rows,
                                    LAMBDA r : Cell(right, r, col) = l.ix)
                 IN [j \in 1..Len(m) |->
                        [ix |-> m[j].ix, v |-> l.v \o m[j].v, src |-> m[j].src]]])]

\* a merge that pairs every row of left with every row of right
MergeIndexCross(left, right) ==
    [cols |-> left.cols \o right.cols,
     rows |-> Flatten([i \in 1..Len(left.rows) |->
                 LET l == left.rows[i]
                 IN [j \in 1..Len(right.rows) |->
                        [ix |-> l.ix, v |-> l.v \o right.rows[j].v,
                         src |-> l.src]]])]

\* pd.merge(left, right, left_index=True, right_index=True)
MergeIndex(left, right) ==
    [cols |-> left.cols \o right.cols,
     rows |-> Flatten([i \in 1..Len(left.rows) |->
                 LET l == left.rows[i]
                     m == SelectSeq(right.rows, LAMBDA r : r.ix = l.ix)
                 IN [j \in 1..Len(m) |->
                        [ix |-> l.ix, v |-> l.v \o m[j].v, src |-> l.src]]])]

(***************************************************************************)
(* Strings are sequences of one-character strings over a small alphabet;   *)
(* CodePoint gives the order sorted() uses.                                *)
(***************************************************************************)
Whitespace == {" ", "\t"}

Upper == {"C", "G"}

Lower == {"a", "b", "c", "e", "f", "g", "h", "i", "k", "m", "n", "o", "s",
          "t", "u", "w"}

Digits == {"1", "2"}

\* characters re's \W does not match: letters, digits and the underscore
WordChars == Upper \cup Lower \cup Digits \cup {"_"}

CodePoint(ch) ==
    CASE ch = "\t" -> 9   [] ch = " " -> 32  [] ch = "-" -> 45
      [] ch = "1" -> 49   [] ch = "2" -> 50
      [] ch = "C" -> 67   [] ch = "G" -> 71  [] ch = "_" -> 95
      [] ch = "a" -> 97   [] ch = "b" -> 98  [] ch = "c" -> 99
      [] ch = "e" -> 101  [] ch = "f" -> 102 [] ch = "g" -> 103
      [] ch = "h" -> 104  [] ch = "i" -> 105 [] ch = "k" -> 107
      [] ch = "m" -> 109  [] ch = "n" -> 110 [] ch = "o" -> 111
      [] ch = "s" -> 115  [] ch = "t" -> 116 [] ch = "u" -> 117
      [] ch = "w" -> 119

\* str.lower() on one character
LowerChar(ch) == CASE ch = "C" -> "c" [] ch = "G" -> "g" [] OTHER -> ch

\* the pieces of s between whitespace characters, empty pieces included;
\* cur is the piece being read
RECURSIVE SplitWhitespace(_, _)
SplitWhitespace(s, cur) ==
    IF s = <<>> THEN <<cur>>
    ELSE IF Head(s) \in Whitespace
         THEN <<cur>> \o SplitWhitespace(Tail(s), <<>>)
         ELSE SplitWhitespace(Tail(s), Append(cur, Head(s)))

\* re.split('\W', s): the pieces of s between characters that \W matches,
\* empty pieces included
RECURSIVE SplitNonWord(_, _)
SplitNonWord(s, cur) ==
    IF s = <<>> THEN <<cur>>
    ELSE IF Head(s) \notin WordChars
         THEN <<cur>> \o SplitNonWord(Tail(s), <<>>)
         ELSE SplitNonWord(Tail(s), Append(cur, Head(s)))

\* filter(None, tokens)
NonEmpty(tokens) == SelectSeq(tokens, LAMBDA t : t # <<>>)

\* ' '.join(tokens)
RECURSIVE Join(_)
Join(tokens) ==
    IF tokens = <<>> THEN <<>>
    ELSE IF Len(tokens) = 1 THEN tokens[1]
         ELSE tokens[1] \o <<" ">> \o Join(Tail(tokens))

\* a < b for strings, by code point
RECURSIVE StrLess(_, _)
StrLess(a, b) ==
    IF b = <<>> THEN FALSE
    ELSE IF a = <<>> THEN TRUE
    ELSE IF CodePoint(Head(a)) # CodePoint(Head(b))
         THEN CodePoint(Head(a)) < CodePoint(Head(b))
         ELSE StrLess(Tail(a), Tail(b))

RECURSIVE InsertSorted(_, _)
InsertSorted(t, sorted) ==
    IF sorted = <<>> THEN <<t>>
    ELSE IF StrLess(Head(sorted), t)
         THEN <<Head(sorted)>> \o InsertSorted(t, Tail(sorted))
         ELSE <<t>> \o sorted

\* sorted(tokens)
RECURSIVE Sorted(_)
Sorted(tokens) ==
    IF tokens = <<>> THEN <<>>
    ELSE InsertSorted(Head(tokens), Sorted(Tail(tokens)))

\* [i for i in tokens if i not in seen and not seen_add(i)]
RECURSIVE Dedupe(_, _)
Dedupe(tokens, seen) ==
    IF tokens = <<>> THEN <<>>
    ELSE IF Head(tokens) \in seen THEN Dedupe(Tail(tokens), seen)
         ELSE <<Head(tokens)>> \o Dedupe(Tail(tokens), seen \cup {Head(tokens)})

\* normalize_names without lower()
normalize_names_cased(obj) ==
    LET tokens == NonEmpty(SplitWhitespace(obj, <<>>))
    IN Join(NonEmpty(tokens))

\* obj.strip().lower().split(): split() without argument splits on runs of
\* whitespace and yields no empty piece
normalize_names(obj) ==
    LET lowered == [i \in 1..Len(obj) |-> LowerChar(obj[i])]
        tokens  == NonEmpty(SplitWhitespace(lowered, <<>>))
    IN Join(NonEmpty(tokens))

\* fingerprint without sorted()
fingerprint_unsorted(obj) ==
    LET alphanumeric_tokens ==
            NonEmpty(SplitNonWord(obj, <<>>))
        deduped == Dedupe(alphanumeric_tokens, {})
    IN Join(deduped)

fingerprint(obj) ==
    LET alphanumeric_tokens ==
            NonEmpty(SplitNonWord(obj, <<>>))
        deduped == Sorted(Dedupe(alphanumeric_tokens, {}))
    IN Join(deduped)

(***************************************************************************)
(* Dates.  A timestamp string 'Y-m-d H:M:S Z' is the record of its fields. *)
(***************************************************************************)
\* zone names strptime's %Z accepts: UTC, GMT and the names of the local
\* zone (time.tzname), here those of a machine on US Eastern time
LocalZones == {"EST", "EDT"}

ZoneNames == {"UTC", "GMT"} \cup LocalZones

DaysIn(y, m) ==
    IF m = 2 THEN (IF y % 4 = 0 /\ (y % 100 # 0 \/ y % 400 = 0) THEN 29 ELSE 28)
    ELSE IF m \in {4, 6, 9, 11} THEN 30 ELSE 31

\* datetime.strptime(obj, '%Y-%m-%d %H:%M:%S %Z') succeeds; a second of 60
\* matches %S but is not a second of a datetime
Parses(obj) ==
    /\ obj.m \in 1..12
    /\ obj.d \in 1..DaysIn(obj.Y, obj.m)
    /\ obj.H \in 0..23
    /\ obj.M \in 0..59
    /\ obj.S \in 0..59
    /\ obj.Z \in ZoneNames

\* reformat_dates with the 12-hour %I in place of %H
reformat_dates_12h(obj) ==
    [Y |-> obj.Y, m |-> obj.m, d |-> obj.d,
     H |-> IF obj.H % 12 = 0 THEN 12 ELSE obj.H % 12,
     M |-> obj.M, S |-> obj.S, z |-> "+0000"]

\* replace(tzinfo=UTC).strftime('%Y%m%dT%H%M%S%z'); defined where Parses
reformat_dates(obj) ==
    [Y |-> obj.Y, m |-> obj.m, d |-> obj.d,
     H |-> obj.H, M |-> obj.M, S |-> obj.S, z |-> "+0000"]

(***************************************************************************)
(* reshape_data and load_and_tranform.                                     *)
(***************************************************************************)
\* a missing number (NaN in a frame, null in JSON)
NaN == -1

\* an int() that lets a missing number through
IntRaisesNever(x) == FALSE

\* int(x) raises on a missing number
IntRaises(x) == x = NaN

int(x) == x

\* row.to_json() read back by json.loads: the dictionary from the column
\* labels to the cells of the row
to_json(df, row) == [n \in Range(df.cols) |-> Cell(df, row, n)]

\* reshape_data taking the identifier from the dish
reshape_data_by_dish(obj) ==
    [_index  |-> "menus",
     _type   |-> "item",
     _id     |-> int(obj["dish_id"]),
     _source |-> obj]

reshape_data(obj) ==
    [_index  |-> "menus",
     _type   |-> "item",
     _id     |-> int(obj["item_id"]),
     _source |-> obj]

DishKeep == <<"name", "menus_appeared", "times_appeared">>

ItemKeep == <<"id", "menu_page_id", "xpos", "ypos", "item_created_at",
              "item_updated_at">>

MenuKeep == <<"sponsor", "location", "date", "page_count", "dish_count">>

ItemPageColumns ==
    <<"item_id", "menu_page_id", "xpos", "ypos", "item_created_at",
      "item_updated_at", "menu_id", "page_number", "image_id", "full_height",
      "full_width", "uuid">>

renamed_columns ==
    <<"dish_id", "menu_sponsor", "menu_location", "menu_date",
      "menu_page_count", "menu_dish_count", "item_id", "menu_page_id",
      "item_xpos", "item_ypos", "item_created_at", "item_updated_at",
      "menu_id", "menu_page_number", "image_id", "page_image_full_height",
      "page_image_full_width", "page_image_uuid", "dish_name",
      "dish_menus_appeared", "dish_times_appeared", "dish_normalized_name",
      "dish_name_fingerprint">>

\* the same format string for the four URIs, without '/edit'
UriWithoutSuffix(path, x, suffix) == <<"http://menus.nypl.org/", path, int(x), "">>

\* 'http://menus.nypl.org/<path>/{0}<suffix>'.format(int(x))
Uri(path, x, suffix) == <<"http://menus.nypl.org/", path, int(x), suffix>>

HasCols(cols, names) == \A i \in 1..Len(names) : HasCol(cols, names[i])

\* the four files are there to be read (lines 241-244)
CsvPresent(fp) ==
    /\ fp.Dish.present /\ HasCol(fp.Dish.cols, "id")
    /\ fp.MenuItem.present /\ HasCol(fp.MenuItem.cols, "dish_id")
    /\ fp.MenuPage.present /\ HasCol(fp.MenuPage.cols, "id")
    /\ fp.Menu.present /\ HasCol(fp.Menu.cols, "id")

latest_dish_data_df(fp) == from_csv(fp.Dish, "id", FALSE)

latest_item_data_df(fp) == from_csv(fp.MenuItem, "dish_id", TRUE)

latest_page_data_df(fp) == from_csv(fp.MenuPage, "id", FALSE)

latest_menu_data_df(fp) == from_csv(fp.Menu, "id", FALSE)

\* the dish frame without the filter of lines 255-258
trimmed_dish_data_df_unfiltered(fp) ==
    LET trimmed == Project(latest_dish_data_df(fp), DishKeep)
        named   == AddColumn(trimmed, "normalized_name",
                        [i \in 1..Len(trimmed.rows) |->
                            normalize_names(Cell(trimmed, trimmed.rows[i], "name"))])
    IN AddColumn(named, "fingerprint",
            [i \in 1..Len(named.rows) |->
                fingerprint(Cell(named, named.rows[i], "normalized_name"))])

\* lines 255-278: the dishes that appear, their three columns, the
\* normalized name and the fingerprint
trimmed_dish_data_df(fp) ==
    LET latest   == latest_dish_data_df(fp)
        non_null == [latest EXCEPT !.rows =
                        SelectSeq(latest.rows,
                            LAMBDA r : Cell(latest, r, "times_appeared") # 0)]
        trimmed  == Project(non_null, DishKeep)
        named    == AddColumn(trimmed, "normalized_name",
                        [i \in 1..Len(trimmed.rows) |->
                            normalize_names(Cell(trimmed, trimmed.rows[i], "name"))])
    IN AddColumn(named, "fingerprint",
            [i \in 1..Len(named.rows) |->
                fingerprint(Cell(named, named.rows[i], "normalized_name"))])

\* lines 290-291: the item frame with the two reformatted date columns
dated_item_data_df(fp) ==
    LET latest  == latest_item_data_df(fp)
        created == AddColumn(latest, "item_created_at",
                        [i \in 1..Len(latest.rows) |->
                            reformat_dates(Cell(latest, latest.rows[i], "created_at"))])
    IN AddColumn(created, "item_updated_at",
            [i \in 1..Len(created.rows) |->
                reformat_dates(Cell(created, created.rows[i], "updated_at"))])

trimmed_item_data_df(fp) == Project(dated_item_data_df(fp), ItemKeep)

trimmed_menu_data_df(fp) == Project(latest_menu_data_df(fp), MenuKeep)

\* lines 337-342
merged_item_pages_df(fp) ==
    SetColumns(MergeLeftOn(trimmed_item_data_df(fp), latest_page_data_df(fp),
                           "menu_page_id"),
               ItemPageColumns)

\* lines 345-346
merged_item_pages_menus_df(fp) ==
    MergeRightOn(trimmed_menu_data_df(fp), merged_item_pages_df(fp), "menu_id")

\* lines 348-349
full_merge_df(fp) ==
    MergeIndex(merged_item_pages_menus_df(fp), trimmed_dish_data_df(fp))

\* lines 352-370: the renamed frame with the four URI columns
for_json_output_df(fp) ==
    LET renamed == SetColumns(reset_index(full_merge_df(fp), "dish_id"),
                              renamed_columns)
        UriCol(df, name, col, path, suffix) ==
            AddColumn(df, name,
                [i \in 1..Len(df.rows) |->
                    Uri(path, Cell(df, df.rows[i], col), suffix)])
    IN UriCol(UriCol(UriCol(UriCol(renamed,
            "dish_uri", "dish_id", "dishes/", ""),
            "item_uri", "item_id", "menu_items/", "/edit"),
            "menu_page_uri", "menu_page_id", "menu_pages/", ""),
            "menu_uri", "menu_id", "menus/", "")

\* lines 254-278 raise: a dish column the code names is absent
DishRaises(fp) == ~HasCols(latest_dish_data_df(fp).cols, DishKeep)

\* a date that does not parse is left as it is
ItemRaisesOnColumns(fp) ==
    ~HasCols(latest_item_data_df(fp).cols,
             <<"id", "menu_page_id", "xpos", "ypos", "created_at", "updated_at">>)

\* lines 287-301 raise: an item column is absent or a date does not parse
ItemRaises(fp) ==
    \/ ~HasCols(latest_item_data_df(fp).cols,
                <<"id", "menu_page_id", "xpos", "ypos", "created_at", "updated_at">>)
    \/ \E i \in 1..Len(fp.MenuItem.rows) :
          LET df == latest_item_data_df(fp)
          IN \/ ~Parses(Cell(df, df.rows[i], "created_at"))
             \/ ~Parses(Cell(df, df.rows[i], "updated_at"))

\* lines 310-327 raise: a page or menu column is absent
PageMenuRaises(fp) ==
    \/ ~HasCols(latest_page_data_df(fp).cols, <<"full_height", "full_width">>)
    \/ ~HasCols(latest_menu_data_df(fp).cols, MenuKeep)

\* lines 336-370 raise: the twelve labels do not fit the merged frame, or
\* int() meets a missing identifier
MergeRaises(fp) ==
    \/ Len(latest_page_data_df(fp).cols) + Len(ItemKeep) # Len(ItemPageColumns)
    \/ LET df == SetColumns(reset_index(full_merge_df(fp), "dish_id"), renamed_columns)
       IN \E i \in 1..Len(df.rows) :
             \E n \in {"dish_id", "item_id", "menu_page_id", "menu_id"} :
                IntRaises(Cell(df, df.rows[i], n))

\* the '... removed' notices of lines 259-262, 294-298 and 320-324
RemovedDish(fp) == Discarded(latest_dish_data_df(fp), Range(DishKeep))

RemovedItem(fp) == Discarded(dated_item_data_df(fp), Range(ItemKeep))

RemovedMenu(fp) == Discarded(latest_menu_data_df(fp), Range(MenuKeep))

\* line 379: the generator, as the list of what it will yield; item pairs
\* the action with the MenuItem.csv line it descends from
load_and_tranform(fp) ==
    LET df == for_json_output_df(fp)
    IN [i \in 1..Len(df.rows) |->
           [action |-> reshape_data(to_json(df, df.rows[i])),
            src    |-> df.rows[i].src]]

(***************************************************************************)
(* Source directories: what os.listdir(fp) and the four reads find.  The   *)
(* columns are those of the NYPL export.  Dish 1 appears, dish 2 appears   *)
(* 0 times, there is no dish 3; page 1 belongs to menu 1, page 2 to a menu *)
(* that has no row, there is no page 3.                                    *)
(***************************************************************************)
DishCols ==
    <<"id", "name", "description", "menus_appeared", "times_appeared",
      "first_appeared", "last_appeared", "lowest_price", "highest_price">>

MenuItemCols ==
    <<"id", "menu_page_id", "price", "high_price", "dish_id", "created_at",
      "updated_at", "xpos", "ypos">>

MenuPageCols ==
    <<"id", "menu_id", "page_number", "image_id", "full_height",
      "full_width", "uuid">>

MenuCols ==
    <<"id", "name", "sponsor", "event", "venue", "place",
      "physical_description", "occasion", "notes", "call_number", "keywords",
      "language", "date", "location", "location_type", "currency",
      "currency_symbol", "status", "page_count", "dish_count">>

ChickenGumbo == <<"C", "h", "i", "c", "k", "e", "n", " ", "G", "u", "m", "b", "o">>

BeefStew == <<"b", "e", "e", "f", " ", "s", "t", "e", "w", " ", "s", "t", "e", "w">>

DishCsv ==
    [present |-> TRUE, cols |-> DishCols,
     rows |-> << <<1, ChickenGumbo, "", 3, 5, 1900, 1950, 0, 1>>,
                 <<2, BeefStew, "", 0, 0, 0, 0, 0, 0>> >>]

MenuPageCsv ==
    [present |-> TRUE, cols |-> MenuPageCols,
     rows |-> << <<1, 1, 1, 466, 7230, 5428, "510d47db">>,
                 <<2, 2, 1, 467, 7230, 5428, "510d47dc">> >>]

MenuCsv ==
    [present |-> TRUE, cols |-> MenuCols,
     rows |-> << <<1, "", "HOTEL EASTMAN", "BREAKFAST", "COMMERCIAL",
                   "HOT SPRINGS, AR", "CARD", "EASTER", "", "1900-2822", "",
                   "", "1900-04-15", "Hotel Eastman", "", "Dollars", "$",
                   "complete", 2, 67>> >>]

NoFile == [present |-> FALSE, cols |-> <<>>, rows |-> <<>>]

GoodDate == [Y |-> 2011, m |-> 4, d |-> 19, H |-> 4, M |-> 33, S |-> 15, Z |-> "UTC"]

BadDate == [Y |-> 2011, m |-> 13, d |-> 19, H |-> 4, M |-> 33, S |-> 15, Z |-> "UTC"]

ItemKinds == {"ok", "zero", "nodish", "nomenu", "nopage"}

\* line i of MenuItem.csv: its id is 10 + i, never the id of a dish, a page
\* or a menu
MenuItemRow(i, kind, created) ==
    <<10 + i,
      CASE kind = "nomenu" -> 2 [] kind = "nopage" -> 3 [] OTHER -> 1,
      40, NaN,
      CASE kind = "zero" -> 2 [] kind = "nodish" -> 3 [] OTHER -> 1,
      created, GoodDate, 11, 25>>

MenuItemCsv(kinds, created) ==
    [present |-> TRUE, cols |-> MenuItemCols,
     rows |-> [i \in 1..Len(kinds) |-> MenuItemRow(i, kinds[i], created)]]

Directory(kinds) ==
    [tgz |-> TRUE, Dish |-> DishCsv, MenuItem |-> MenuItemCsv(kinds, GoodDate),
     MenuPage |-> MenuPageCsv, Menu |-> MenuCsv]

\* no archive to extract
NoArchive == [Directory(<<"ok">>) EXCEPT !.tgz = FALSE]

\* the archive holds no Menu.csv
NoMenuCsv == [Directory(<<"ok">>) EXCEPT !.Menu = NoFile]

\* a created_at that does not parse
BadDateDir == [Directory(<<"ok">>) EXCEPT !.MenuItem = MenuItemCsv(<<"ok">>, BadDate)]

\* a zone name strptime does not know on this machine
BadZone == [GoodDate EXCEPT !.Z = "PST"]

\* the second of two lines has an updated_at that does not parse
BadUpdatedDir ==
    [Directory(<<"ok", "ok">>) EXCEPT
        !.MenuItem.rows[2][ColIdx(MenuItemCols, "updated_at")] = BadZone]

\* the line with the bad created_at is one the joins would drop
BadDateUnjoinedDir ==
    [Directory(<<"ok", "nopage">>) EXCEPT
        !.MenuItem.rows[2][ColIdx(MenuItemCols, "created_at")] = BadDate]

\* two lines of MenuPage.csv carry the page id 1
TwoPagesDir ==
    [Directory(<<"ok">>) EXCEPT
        !.MenuPage.rows = << <<1, 1, 1, 466, 7230, 5428, "510d47db">>,
                             <<1, 1, 2, 468, 7230, 5428, "510d47dd">> >>]

\* MenuPage.csv has a column more than the six the code relabels
ExtraPageColumnDir ==
    [Directory(<<"ok">>) EXCEPT
        !.MenuPage.cols = Append(MenuPageCols, "dpi"),
        !.MenuPage.rows = << <<1, 1, 1, 466, 7230, 5428, "510d47db", 300>> >>]

\* the page has no page_number, full_height or full_width
NoPageSizeDir ==
    [Directory(<<"ok">>) EXCEPT
        !.MenuPage.rows = << <<1, 1, NaN, 466, NaN, NaN, "510d47db">> >>]

\* the second of two lines of MenuItem.csv has no id
NoItemIdDir ==
    [Directory(<<"ok", "ok">>) EXCEPT
        !.MenuItem.rows[2][ColIdx(MenuItemCols, "id")] = NaN]

\* one dish with one item on one page of one menu
ChainDir ==
    [Directory(<<"ok">>) EXCEPT
        !.Dish.rows = << <<1, ChickenGumbo, "", 3, 5, 1900, 1950, 0, 1>> >>,
        !.MenuPage.rows = << <<1, 1, 1, 466, 7230, 5428, "510d47db">> >>]

Sources ==
    {Directory(kinds) : kinds \in UNION {[1..n -> ItemKinds] : n \in 0..MaxItems}}
    \cup {NoArchive, NoMenuCsv, BadDateDir, BadUpdatedDir, BadDateUnjoinedDir,
          TwoPagesDir, ExtraPageColumnDir, NoPageSizeDir, NoItemIdDir, ChainDir}

(***************************************************************************)
(* The search engine: the index 'menus' as [exists, docs, mapping]; docs   *)
(* is the set of identifiers of the documents it holds, mapping the set of *)
(* <<field, type, index option>> it was given.                             *)
(***************************************************************************)
index_name == "menus"

type_name == "item"

item_mapping ==
    {<<"item_updated_at", "date", "basic_date_time_no_millis">>,
     <<"menu_page_id", "long", "">>,
     <<"menu_sponsor", "string", "not_analyzed">>,
     <<"menu_page_count", "double", "">>,
     <<"item_ypos", "double", "">>,
     <<"dish_normalized_name", "string", "">>,
     <<"menu_id", "long", "">>,
     <<"dish_times_appeared", "double", "">>,
     <<"menu_location", "string", "not_analyzed">>,
     <<"dish_menus_appeared", "double", "">>,
     <<"menu_uri", "string", "not_analyzed">>,
     <<"menu_page_uri", "string", "not_analyzed">>,
     <<"page_image_uuid", "string", "">>,
     <<"menu_page_number", "double", "">>,
     <<"item_created_at", "date", "basic_date_time_no_millis">>,
     <<"dish_id", "long", "">>,
     <<"dish_name", "string", "not_analyzed">>,
     <<"item_uri", "string", "not_analyzed">>,
     <<"item_id", "long", "">>,
     <<"image_id", "long", "">>,
     <<"item_xpos", "double", "">>,
     <<"dish_name_fingerprint", "string", "not_analyzed">>,
     <<"dish_uri", "string", "not_analyzed">>}

Absent == [exists |-> FALSE, docs |-> {}, mapping |-> {}]

\* es.indices.delete(index)
EsDelete(m) == Absent

\* es.indices.create(index)
EsCreate(m) == [exists |-> TRUE, docs |-> {}, mapping |-> {}]

\* es.indices.put_mapping(index, doc_type, body): new fields join the mapping
EsPutMapping(m, body) == [m EXCEPT !.mapping = @ \cup body]

\* one accepted action of a bulk request; an index that is not there is
\* created on the fly
EsIndex(m, action) ==
    IF action._index = index_name
    THEN [m EXCEPT !.exists = TRUE, !.docs = @ \cup {action._id}]
    ELSE m

\* documents left by earlier loads: 11 is an identifier the sources use
\* too, 99 is not
StaleIds == {11, 99}

StaleMapping == {<<"old_field", "string", "">>}

EngineStates ==
    {Absent}
    \cup {[exists |-> TRUE, docs |-> D, mapping |-> mp] :
             D \in {{}, {99}, StaleIds}, mp \in {item_mapping, StaleMapping}}

\* what the engine reports for a rejected document
EngineErrors == {"MapperParsingException", "EsRejectedExecutionException"}

(***************************************************************************)
(* State.                                                                  *)
(***************************************************************************)
VARIABLES
    fp,        \* the source directory given to load()
    menus,     \* the engine's index 'menus'
    run,       \* number of the current run of load()
    prev,      \* history: the previous run, if its loop ran to the end:
               \* the identifiers acknowledged ok and those the index held
    pc,        \* position of the run
    calls,     \* history: the engine calls of this run, [op, ok]
    returns,   \* history: the index as each server() call of this run left it
    written,   \* history: identifiers the engine accepted since the last server()
    sent,      \* history: the generator items submitted to the engine
    processed, \* history: the acknowledgements the loop of load() handled
    actioner,  \* what the generator of load_and_tranform has yet to yield
    acks,      \* acknowledgements streaming_bulk has yet to yield
    c,         \* the Counter of load()
    log,       \* the entries this run wrote to PIPELINE_LOGGER
    exc,       \* the class of the exception being raised, or "none"
    result,    \* how load() ended: "none", "returned" or "raised"
    arg,       \* a helper function called on its own: [f, x], its name and
               \* its argument
    val,       \* what that call came to: [done, raised, out]
    peer       \* a second run of load() on the same directory against the
               \* same engine: [pc, exc, todo, lost], its position, the
               \* exception that ended it, the actions it has yet to send,
               \* and history: the documents of the first run its delete
               \* removed

vars == <<fp, menus, run, prev, pc, calls, returns, written, sent, processed,
          actioner, acks, c, log, exc, result, arg, val, peer>>

Entry(level, msg, args) == [level |-> level, msg |-> msg, args |-> args]

Info(msg, args) == Entry("INFO", msg, args)

Error(msg, args) == Entry("ERROR", msg, args)

Call(op, ok) == [op |-> op, ok |-> ok]

\* Counter: c[key] += 1 and sum(c.values())
Incremented(counter, key) ==
    IF key \in DOMAIN counter
    THEN [counter EXCEPT ![key] = @ + 1]
    ELSE [k \in DOMAIN counter \cup {key} |->
             IF k = key THEN 1 ELSE counter[k]]

Total(counter) == SumOver(counter, DOMAIN counter)

EmptyCounter == [k \in {} |-> 0]

\* the identifiers of the acknowledgements with ok = true
AckedIds(handled) == {handled[i]._id : i \in {j \in 1..Len(handled) : handled[j].ok}}

NoRun == [finished |-> FALSE, acked |-> {}, docs |-> {}]

\* no helper function is called on its own
NoCall == [f |-> "none", x |-> <<>>]

NoValue == [done |-> FALSE, raised |-> FALSE, out |-> <<>>]

\* there is no second run
NoPeer == [pc |-> "none", exc |-> "none", todo |-> <<>>, lost |-> {}]

Init ==
    /\ fp \in Sources
    /\ menus \in EngineStates
    /\ run = 1
    /\ prev = NoRun
    /\ pc = "start"
    /\ calls = <<>>
    /\ returns = <<>>
    /\ written = {}
    /\ sent = <<>>
    /\ processed = <<>>
    /\ actioner = <<>>
    /\ acks = <<>>
    /\ c = EmptyCounter
    /\ log = <<>>
    /\ exc = "none"
    /\ result = "none"
    /\ arg = NoCall
    /\ val = NoValue
    /\ peer = NoPeer

(***************************************************************************)
(* Exceptions.  A raise inside the try block of load() unwinds to its      *)
(* handler.                                                                *)
(***************************************************************************)
\* the classes an exception of class cls is an instance of
Bases(cls) ==
    IF cls \in {"KeyboardInterrupt"}
    THEN {cls, "BaseException"}
    ELSE {cls, "Exception", "BaseException"}

\* a handler written as: except Exception
HandlerClassException == "Exception"

\* line 413: except BaseException
HandlerClass == "BaseException"

Raise(cls) ==
    /\ exc' = cls
    /\ pc' = "except"

\* positions inside the try block
TryBody ==
    {"exists", "delete", "create", "put_mapping", "extract", "read_csv",
     "dish", "item", "page_menu", "merge", "bulk"}

\* load() calling load_and_tranform() first and server() never
EntryPointTransformFirst == "extract"

\* line 399: the first statement of the try block is the call of server()
EntryPoint == "exists"

\* server() keeping an index that is there
AfterExistsReuse(found) == IF found THEN "put_mapping" ELSE "create"

\* server() deleting without looking at what exists() returned
AfterExistsAlwaysDelete(found) == "delete"

\* lines 115-120: delete the index if it is there, then create it
AfterExists(found) == IF found THEN "delete" ELSE "create"

(***************************************************************************)
(* load(), lines 393-399, and server().                                    *)
(***************************************************************************)
StartRun ==
    /\ pc = "start"
    /\ log' = log \o <<Info("Menus ETL Pipeline: Starting run", <<>>)>>
    /\ c' = EmptyCounter
    /\ pc' = EntryPoint
    /\ UNCHANGED <<peer, arg, val, fp, menus, run, prev, calls, returns, written, sent, processed,
                   actioner, acks, exc, result>>

\* lines 108-115
ServerExists ==
    /\ pc = "exists"
    /\ \/ /\ calls' = Append(calls, Call("exists", TRUE))
          /\ log' = log \o <<Info("Verifying Elasticsearch server is ready to receive data", <<>>)>>
          /\ pc' = AfterExists(menus.exists)
          /\ exc' = exc
       \/ /\ calls' = Append(calls, Call("exists", FALSE))
          /\ log' = log \o <<Info("Verifying Elasticsearch server is ready to receive data", <<>>)>>
          /\ Raise("ConnectionError")
    /\ UNCHANGED <<peer, arg, val, fp, menus, run, prev, returns, written, sent, processed,
                   actioner, acks, c, result>>

\* server() swallowing a failed delete and going on to create
ServerDeleteIgnoringFailure ==
    /\ pc = "delete"
    /\ \/ /\ menus.exists
          /\ menus' = EsDelete(menus)
          /\ calls' = Append(calls, Call("delete", TRUE))
       \/ /\ calls' = Append(calls, Call("delete", FALSE))
          /\ menus' = menus
    /\ log' = log \o <<Info("deleting index", <<index_name>>)>>
    /\ pc' = "create"
    /\ UNCHANGED <<peer, arg, val, fp, run, prev, returns, written, sent, processed, actioner,
                   acks, c, exc, result>>

\* lines 116-118
ServerDelete ==
    /\ pc = "delete"
    /\ \/ /\ menus.exists
          /\ menus' = EsDelete(menus)
          /\ calls' = Append(calls, Call("delete", TRUE))
          /\ log' = log \o <<Info("deleting index", <<index_name>>),
                            Info("response", <<"delete">>)>>
          /\ pc' = "create"
          /\ exc' = exc
       \/ /\ calls' = Append(calls, Call("delete", FALSE))
          /\ log' = log \o <<Info("deleting index", <<index_name>>)>>
          /\ Raise(IF menus.exists THEN "TransportError" ELSE "NotFoundError")
          /\ menus' = menus
    /\ UNCHANGED <<peer, arg, val, fp, run, prev, returns, written, sent, processed, actioner,
                   acks, c, result>>

\* lines 120-122
ServerCreate ==
    /\ pc = "create"
    /\ \/ /\ ~menus.exists
          /\ menus' = EsCreate(menus)
          /\ calls' = Append(calls, Call("create", TRUE))
          /\ log' = log \o <<Info("creating index", <<index_name>>),
                            Info("response", <<"create">>)>>
          /\ pc' = "put_mapping"
          /\ exc' = exc
       \/ /\ calls' = Append(calls, Call("create", FALSE))
          /\ log' = log \o <<Info("creating index", <<index_name>>)>>
          /\ Raise(IF menus.exists THEN "RequestError" ELSE "TransportError")
          /\ menus' = menus
    /\ UNCHANGED <<peer, arg, val, fp, run, prev, returns, written, sent, processed, actioner,
                   acks, c, result>>

\* lines 207-211; server() returns to line 400
ServerPutMapping ==
    /\ pc = "put_mapping"
    /\ \/ /\ menus.exists
          /\ menus' = EsPutMapping(menus, item_mapping)
          /\ calls' = Append(calls, Call("put_mapping", TRUE))
          /\ log' = log \o <<Info("Creating mapping for index", <<index_name>>),
                            Info("response", <<"put_mapping">>)>>
          /\ returns' = Append(returns, menus')
          /\ pc' = "extract"
          /\ exc' = exc
       \/ /\ calls' = Append(calls, Call("put_mapping", FALSE))
          /\ log' = log \o <<Info("Creating mapping for index", <<index_name>>)>>
          /\ Raise(IF menus.exists THEN "TransportError" ELSE "NotFoundError")
          /\ UNCHANGED <<menus, returns>>
    /\ UNCHANGED <<peer, arg, val, fp, run, prev, written, sent, processed, actioner, acks, c,
                   result>>

(***************************************************************************)
(* load_and_tranform(), line 400 of load().                                *)
(***************************************************************************)
Removed(names) == [i \in 1..Len(names) |-> Info("removed", <<names[i]>>)]

\* lines 221-237
Extract ==
    /\ pc = "extract"
    /\ IF fp.tgz
       THEN /\ log' = log \o <<Info("Extracting source files", <<>>),
                              Info("Untarring and unzipping", <<>>)>>
            /\ pc' = "read_csv"
            /\ exc' = exc
       ELSE /\ log' = log
            /\ Raise("IndexError")
    /\ UNCHANGED <<peer, arg, val, fp, menus, run, prev, calls, returns, written, sent, processed,
                   actioner, acks, c, result>>

\* lines 239-246
ReadCsv ==
    /\ pc = "read_csv"
    /\ IF CsvPresent(fp)
       THEN /\ log' = log \o <<Info("Loading data from source files into memory", <<>>),
                              Info("Data loaded. Starting transformations", <<>>)>>
            /\ pc' = "dish"
            /\ exc' = exc
       ELSE /\ log' = log \o <<Info("Loading data from source files into memory", <<>>)>>
            /\ Raise("IOError")
    /\ UNCHANGED <<peer, arg, val, fp, menus, run, prev, calls, returns, written, sent, processed,
                   actioner, acks, c, result>>

\* lines 254-278
TransformDish ==
    /\ pc = "dish"
    /\ IF DishRaises(fp)
       THEN /\ log' = log \o <<Info("Working on Dish.csv", <<>>)>>
            /\ Raise("KeyError")
       ELSE /\ log' = log \o <<Info("Working on Dish.csv", <<>>)>>
                         \o Removed(RemovedDish(fp))
            /\ pc' = "item"
            /\ exc' = exc
    /\ UNCHANGED <<peer, arg, val, fp, menus, run, prev, calls, returns, written, sent, processed,
                   actioner, acks, c, result>>

\* lines 287-301
TransformItem ==
    /\ pc = "item"
    /\ IF ItemRaises(fp)
       THEN /\ log' = log \o <<Info("Working on MenuItem.csv", <<>>)>>
            /\ Raise("ValueError")
       ELSE /\ log' = log \o <<Info("Working on MenuItem.csv", <<>>),
                              Info("Date reformatting complete", <<>>)>>
                         \o Removed(RemovedItem(fp))
            /\ pc' = "page_menu"
            /\ exc' = exc
    /\ UNCHANGED <<peer, arg, val, fp, menus, run, prev, calls, returns, written, sent, processed,
                   actioner, acks, c, result>>

\* lines 310-327
TransformPageMenu ==
    /\ pc = "page_menu"
    /\ IF PageMenuRaises(fp)
       THEN /\ log' = log \o <<Info("Working on MenuPage.csv", <<>>)>>
            /\ Raise("KeyError")
       ELSE /\ log' = log \o <<Info("Working on MenuPage.csv", <<>>),
                              Info("Working on Menu.csv", <<>>)>>
                         \o Removed(RemovedMenu(fp))
            /\ pc' = "merge"
            /\ exc' = exc
    /\ UNCHANGED <<peer, arg, val, fp, menus, run, prev, calls, returns, written, sent, processed,
                   actioner, acks, c, result>>

\* lines 336-379, and lines 400-402 of load()
Merge ==
    /\ pc = "merge"
    /\ IF MergeRaises(fp)
       THEN /\ log' = log \o <<Info("Merging dataframes", <<>>)>>
            /\ Raise("ValueError")
            /\ actioner' = actioner
       ELSE /\ log' = log \o <<Info("Merging dataframes", <<>>),
                              Info("Merged dataframe ready", <<>>),
                              Info("Preparing data to load into Elasticsearch", <<>>)>>
            /\ actioner' = load_and_tranform(fp)
            /\ pc' = "bulk"
            /\ exc' = exc
    /\ UNCHANGED <<peer, arg, val, fp, menus, run, prev, calls, returns, written, sent, processed,
                   acks, c, result>>

(***************************************************************************)
(* The loop of load() over helpers.streaming_bulk, lines 403-411.  The     *)
(* helper draws up to chunk_size actions from the generator, sends them in *)
(* one request and yields one acknowledgement [ok, op, _id, error] per     *)
(* action; it draws the next chunk when the loop has taken them all.  A    *)
(* document the engine rejects is yielded with ok = false, which is the    *)
(* case the loop's "if not ok" is written for; a request that fails as a   *)
(* whole raises and writes nothing.                                        *)
(***************************************************************************)
Acknowledgement(item, outcome) ==
    [ok    |-> outcome = "ok",
     op    |-> "index",
     _id   |-> item.action._id,
     error |-> IF outcome = "ok" THEN "" ELSE outcome]

\* the engine applies the accepted actions of a request
RECURSIVE EsBulk(_, _, _)
EsBulk(m, chunk, outcome) ==
    IF chunk = <<>> THEN m
    ELSE EsBulk(IF outcome[1] = "ok" THEN EsIndex(m, chunk[1].action) ELSE m,
                Tail(chunk), Tail(outcome))

BulkChunk ==
    /\ pc = "bulk"
    /\ acks = <<>>
    /\ actioner # <<>>
    /\ LET n     == Min(ChunkSize, Len(actioner))
           chunk == SubSeq(actioner, 1, n)
       IN /\ actioner' = SubSeq(actioner, n + 1, Len(actioner))
          /\ sent' = sent \o chunk
          /\ \/ \E outcome \in [1..n -> {"ok"} \cup EngineErrors] :
                   /\ menus' = EsBulk(menus, chunk, outcome)
                   /\ written' = written \cup
                        {chunk[i].action._id : i \in {j \in 1..n : outcome[j] = "ok"}}
                   /\ acks' = [i \in 1..n |-> Acknowledgement(chunk[i], outcome[i])]
                   /\ calls' = Append(calls, Call("bulk", TRUE))
                   /\ UNCHANGED <<pc, exc>>
             \/ /\ calls' = Append(calls, Call("bulk", FALSE))
                /\ Raise("ConnectionError")
                /\ UNCHANGED <<menus, written, acks>>
    /\ UNCHANGED <<peer, arg, val, fp, run, prev, returns, processed, c, log, result>>

\* line 405
DocId(ack) == <<"/menus/item/", ack._id>>

\* lines 406-407
FailureEntries(ack) ==
    IF ~ack.ok
    THEN <<Error("Failed to document", <<ack.op, DocId(ack), ack.error>>)>>
    ELSE <<>>

\* the loop counting every acknowledgement
CountedAlways(counter, ack) == Incremented(counter, DocId(ack))

\* lines 406-409
Counted(counter, ack) ==
    IF ~ack.ok THEN counter ELSE Incremented(counter, DocId(ack))

\* line 411
SuccessEntry(ack, counter) ==
    Info("action succeeded for documents", <<ack.op, Total(counter)>>)

\* the loop giving up at the first failed acknowledgement
AckAbortingOnFailure ==
    /\ pc = "bulk"
    /\ acks # <<>>
    /\ LET ack == Head(acks)
       IN /\ c' = Counted(c, ack)
          /\ log' = log \o FailureEntries(ack)
                        \o (IF ack.ok THEN <<SuccessEntry(ack, c')>> ELSE <<>>)
          /\ processed' = Append(processed, ack)
          /\ IF ack.ok THEN UNCHANGED <<pc, exc>> ELSE Raise("BulkIndexError")
    /\ acks' = Tail(acks)
    /\ UNCHANGED <<peer, arg, val, fp, menus, run, prev, calls, returns, written, sent,
                   actioner, result>>

\* one turn of the loop, lines 404-411
Ack ==
    /\ pc = "bulk"
    /\ acks # <<>>
    /\ LET ack == Head(acks)
       IN /\ c' = Counted(c, ack)
          /\ log' = log \o FailureEntries(ack) \o <<SuccessEntry(ack, c')>>
          /\ processed' = Append(processed, ack)
    /\ acks' = Tail(acks)
    /\ UNCHANGED <<peer, arg, val, fp, menus, run, prev, pc, calls, returns, written, sent,
                   actioner, exc, result>>

\* the helper finds the generator exhausted: the loop ends and load() returns
BulkEnd ==
    /\ pc = "bulk"
    /\ acks = <<>>
    /\ actioner = <<>>
    /\ pc' = "done"
    /\ result' = "returned"
    /\ UNCHANGED <<peer, arg, val, fp, menus, run, prev, calls, returns, written, sent, processed,
                   actioner, acks, c, log, exc>>

\* Ctrl-C while the try block runs
Interrupt ==
    /\ pc \in TryBody
    /\ Raise("KeyboardInterrupt")
    /\ UNCHANGED <<peer, arg, val, fp, menus, run, prev, calls, returns, written, sent, processed,
                   actioner, acks, c, log, result>>

\* a handler that removes what the run wrote
ExceptRollback ==
    /\ pc = "except"
    /\ pc' = "done"
    /\ menus' = EsDelete(menus)
    /\ calls' = Append(calls, Call("delete", TRUE))
    /\ log' = log \o <<Error("Something went wrong", <<exc>>)>>
    /\ result' = "returned"
    /\ UNCHANGED <<peer, arg, val, fp, run, prev, returns, written, sent, processed,
                   actioner, acks, c, exc>>

\* lines 413-418
Except ==
    /\ pc = "except"
    /\ pc' = "done"
    /\ IF HandlerClass \in Bases(exc)
       THEN /\ log' = log \o <<Error("Something went wrong", <<exc>>)>>
            /\ result' = "returned"
       ELSE /\ log' = log
            /\ result' = "raised"
    /\ UNCHANGED <<peer, arg, val, fp, menus, run, prev, calls, returns, written, sent, processed,
                   actioner, acks, c, exc>>

\* the command is run again on the same directory, against the same engine
Invoke ==
    /\ pc = "done"
    /\ run < MaxRuns
    /\ run' = run + 1
    /\ prev' = IF exc = "none"
                THEN [finished |-> TRUE, acked |-> AckedIds(processed),
                      docs |-> menus.docs]
                ELSE NoRun
    /\ pc' = "start"
    /\ calls' = <<>>
    /\ returns' = <<>>
    /\ written' = {}
    /\ sent' = <<>>
    /\ processed' = <<>>
    /\ actioner' = <<>>
    /\ acks' = <<>>
    /\ c' = EmptyCounter
    /\ log' = <<>>
    /\ exc' = "none"
    /\ result' = "none"
    /\ UNCHANGED <<peer, arg, val, fp, menus>>

Next ==
    \/ StartRun
    \/ ServerExists
    \/ ServerDelete
    \/ ServerCreate
    \/ ServerPutMapping
    \/ Extract
    \/ ReadCsv
    \/ TransformDish
    \/ TransformItem
    \/ TransformPageMenu
    \/ Merge
    \/ BulkChunk
    \/ Ack
    \/ BulkEnd
    \/ Interrupt
    \/ Except
    \/ Invoke

Spec == Init /\ [][Next]_vars

(***************************************************************************)
(* server() alone, called up to MaxServerCalls times in a row.             *)
(***************************************************************************)
ServerAgain ==
    /\ pc = "extract"
    /\ Len(returns) < MaxServerCalls
    /\ pc' = "exists"
    /\ UNCHANGED <<peer, arg, val, fp, menus, run, prev, calls, returns, written, sent, processed,
                   actioner, acks, c, log, exc, result>>

NextServer ==
    \/ StartRun
    \/ ServerExists
    \/ ServerDelete
    \/ ServerCreate
    \/ ServerPutMapping
    \/ ServerAgain
    \/ Except

SpecServer == Init /\ [][NextServer]_vars

(***************************************************************************)
(* Two runs of load() at once, on the same directory and against the same  *)
(* engine.  The first run is the run of Spec; the second is peer, taking   *)
(* the same steps in its own process.  Nothing in load() or server() keeps *)
(* the two apart: each call to the engine is a step of its own, and the    *)
(* steps of the two runs interleave freely.  The connection of the second  *)
(* run holds, so its calls fail only when the state of the index makes     *)
(* them fail.                                                              *)
(***************************************************************************)
\* the sources the two runs load: MaxItems items that all join, and a
\* directory without an archive
ConcurrentSources == {Directory([i \in 1..MaxItems |-> "ok"]), NoArchive}

\* line 398: the second run enters the try block
PeerStart == [pc |-> EntryPoint, exc |-> "none", todo |-> <<>>, lost |-> {}]

InitConcurrent ==
    /\ fp \in ConcurrentSources
    /\ menus \in EngineStates
    /\ run = 1
    /\ prev = NoRun
    /\ pc = "start"
    /\ calls = <<>>
    /\ returns = <<>>
    /\ written = {}
    /\ sent = <<>>
    /\ processed = <<>>
    /\ actioner = <<>>
    /\ acks = <<>>
    /\ c = EmptyCounter
    /\ log = <<>>
    /\ exc = "none"
    /\ result = "none"
    /\ arg = NoCall
    /\ val = NoValue
    /\ peer = PeerStart

\* the state of the first run
first == <<fp, run, prev, pc, calls, returns, written, sent, processed,
           actioner, acks, c, log, exc, result, arg, val>>

\* lines 413-418: the handler of the second run logs the exception and
\* load() returns
PeerRaise(cls) == peer' = [peer EXCEPT !.pc = "done", !.exc = cls]

\* lines 108-115
PeerExists ==
    /\ peer.pc = "exists"
    /\ peer' = [peer EXCEPT !.pc = AfterExists(menus.exists)]
    /\ UNCHANGED <<menus, first>>

\* lines 116-118
PeerDelete ==
    /\ peer.pc = "delete"
    /\ IF menus.exists
       THEN /\ menus' = EsDelete(menus)
            /\ peer' = [peer EXCEPT !.pc = "create",
                                    !.lost = menus.docs \cap written]
       ELSE /\ menus' = menus
            /\ PeerRaise("NotFoundError")
    /\ UNCHANGED first

\* a create that passes over "index already exists", as with ignore=400
PeerCreateIgnoringExisting ==
    /\ peer.pc = "create"
    /\ menus' = IF menus.exists THEN menus ELSE EsCreate(menus)
    /\ peer' = [peer EXCEPT !.pc = "put_mapping"]
    /\ UNCHANGED first

\* lines 120-122
PeerCreate ==
    /\ peer.pc = "create"
    /\ IF ~menus.exists
       THEN /\ menus' = EsCreate(menus)
            /\ peer' = [peer EXCEPT !.pc = "put_mapping"]
       ELSE /\ menus' = menus
            /\ PeerRaise("RequestError")
    /\ UNCHANGED first

\* lines 207-211
PeerPutMapping ==
    /\ peer.pc = "put_mapping"
    /\ IF menus.exists
       THEN /\ menus' = EsPutMapping(menus, item_mapping)
            /\ peer' = [peer EXCEPT !.pc = "transform"]
       ELSE /\ menus' = menus
            /\ PeerRaise("NotFoundError")
    /\ UNCHANGED first

\* the exception load_and_tranform(f) raises, "none" when it returns
TransformError(f) ==
    IF ~f.tgz THEN "IndexError"
    ELSE IF ~CsvPresent(f) THEN "IOError"
    ELSE IF DishRaises(f) THEN "KeyError"
    ELSE IF ItemRaises(f) THEN "ValueError"
    ELSE IF PageMenuRaises(f) THEN "KeyError"
    ELSE IF MergeRaises(f) THEN "ValueError"
    ELSE "none"

\* line 400, and lines 401-402
PeerTransform ==
    /\ peer.pc = "transform"
    /\ IF TransformError(fp) = "none"
       THEN peer' = [peer EXCEPT !.pc = "bulk", !.todo = load_and_tranform(fp)]
       ELSE PeerRaise(TransformError(fp))
    /\ UNCHANGED <<menus, first>>

\* lines 403-411: one request of the second run, every action accepted
PeerBulk ==
    /\ peer.pc = "bulk"
    /\ peer.todo # <<>>
    /\ LET n     == Min(ChunkSize, Len(peer.todo))
           chunk == SubSeq(peer.todo, 1, n)
       IN /\ menus' = EsBulk(menus, chunk, [i \in 1..n |-> "ok"])
          /\ peer' = [peer EXCEPT !.todo = SubSeq(@, n + 1, Len(@))]
    /\ UNCHANGED first

\* the loop of the second run ends and load() returns
PeerEnd ==
    /\ peer.pc = "bulk"
    /\ peer.todo = <<>>
    /\ peer' = [peer EXCEPT !.pc = "done"]
    /\ UNCHANGED <<menus, first>>

NextConcurrent ==
    \/ StartRun
    \/ ServerExists
    \/ ServerDelete
    \/ ServerCreate
    \/ ServerPutMapping
    \/ Extract
    \/ ReadCsv
    \/ TransformDish
    \/ TransformItem
    \/ TransformPageMenu
    \/ Merge
    \/ BulkChunk
    \/ Ack
    \/ BulkEnd
    \/ Except
    \/ PeerExists
    \/ PeerDelete
    \/ PeerCreate
    \/ PeerPutMapping
    \/ PeerTransform
    \/ PeerBulk
    \/ PeerEnd

SpecConcurrent == InitConcurrent /\ [][NextConcurrent]_vars

(***************************************************************************)
(* The helper functions called on their own: normalize_names and           *)
(* fingerprint on every string of up to MaxLen characters of TextAlphabet, *)
(* reformat_dates on the timestamps of DateInputs.                         *)
(***************************************************************************)
TextAlphabet == {" ", "\t", "a", "C", "_", "-"}

Strings == UNION {[1..n -> TextAlphabet] : n \in 0..MaxLen}

\* well-formed and malformed timestamps: month 13, 29 to 31 February, hour
\* 24, second 60, a zone of the machine and a zone it does not know
DateInputs ==
    [Y : {2011, 2012}, m : {2, 12, 13}, d : {1, 29, 31}, H : {0, 4, 23, 24},
     M : {0, 59}, S : {0, 59, 60}, Z : {"UTC", "GMT", "EST", "PST"}]

HelperCalls ==
    {[f |-> "normalize_names", x |-> s] : s \in Strings}
    \cup {[f |-> "fingerprint", x |-> s] : s \in Strings}
    \cup {[f |-> "reformat_dates", x |-> t] : t \in DateInputs}

Returned(out) == [done |-> TRUE, raised |-> FALSE, out |-> out]

Raised == [done |-> TRUE, raised |-> TRUE, out |-> <<>>]

InitHelpers ==
    /\ arg \in HelperCalls
    /\ val = NoValue
    /\ peer = NoPeer
    /\ fp = Directory(<<>>)
    /\ menus = Absent
    /\ run = 1
    /\ prev = NoRun
    /\ pc = "start"
    /\ calls = <<>>
    /\ returns = <<>>
    /\ written = {}
    /\ sent = <<>>
    /\ processed = <<>>
    /\ actioner = <<>>
    /\ acks = <<>>
    /\ c = EmptyCounter
    /\ log = <<>>
    /\ exc = "none"
    /\ result = "none"

ApplyNormalizeNames ==
    /\ arg.f = "normalize_names"
    /\ ~val.done
    /\ val' = Returned(normalize_names(arg.x))
    /\ UNCHANGED <<peer, arg, fp, menus, run, prev, pc, calls, returns, written, sent,
                   processed, actioner, acks, c, log, exc, result>>

ApplyFingerprint ==
    /\ arg.f = "fingerprint"
    /\ ~val.done
    /\ val' = Returned(fingerprint(arg.x))
    /\ UNCHANGED <<peer, arg, fp, menus, run, prev, pc, calls, returns, written, sent,
                   processed, actioner, acks, c, log, exc, result>>

\* strptime raises ValueError on a string it cannot parse
ApplyReformatDates ==
    /\ arg.f = "reformat_dates"
    /\ ~val.done
    /\ val' = IF Parses(arg.x) THEN Returned(reformat_dates(arg.x)) ELSE Raised
    /\ UNCHANGED <<peer, arg, fp, menus, run, prev, pc, calls, returns, written, sent,
                   processed, actioner, acks, c, log, exc, result>>

NextHelpers ==
    \/ ApplyNormalizeNames
    \/ ApplyFingerprint
    \/ ApplyReformatDates

SpecHelpers == InitHelpers /\ [][NextHelpers]_vars

(***************************************************************************)
(* Properties.                                                             *)
(***************************************************************************)
EntriesWith(msg) == SelectSeq(log, LAMBDA e : e.msg = msg)

HasEntry(msg) == EntriesWith(msg) # <<>>

FailureLog == EntriesWith("Failed to document")

TopLevelErrors == EntriesWith("Something went wrong")

OkAcks == SelectSeq(processed, LAMBDA a : a.ok)

FailedAcks == SelectSeq(processed, LAMBDA a : ~a.ok)

CallsOf(op) == {i \in 1..Len(calls) : calls[i].op = op}

Succeeded(op) == \E i \in 1..Len(calls) : calls[i] = Call(op, TRUE)

SetupOps == {"delete", "create", "put_mapping"}

\* the loop of load() ended because the helper had nothing more to yield
LoopRanToEnd == pc = "done" /\ exc = "none"

FreshIndex == [exists |-> TRUE, docs |-> {}, mapping |-> item_mapping]

\* C1: a failed acknowledgement never aborts the run.  The turn of the loop
\* that handles an acknowledgement with ok = false leaves the loop running,
\* raises nothing and keeps the acknowledgements behind it; when the loop has
\* run to its end every action sent has had its acknowledgement handled; and
\* the error entries 'Failed to ...' are, in order, one per failed
\* acknowledgement, each with the verb, the path /menus/item/<id> and the
\* error the engine reported.
C1_FailureDoesNotAbort ==
    /\ [][(pc = "bulk" /\ acks # <<>> /\ ~Head(acks).ok /\ processed' # processed)
            => (pc' = "bulk" /\ exc' = "none" /\ acks' = Tail(acks)
                /\ processed' = Append(processed, Head(acks)))]_vars
    /\ [](LoopRanToEnd => Len(processed) = Len(sent))
    /\ [](/\ Len(FailureLog) = Len(FailedAcks)
          /\ \A i \in 1..Len(FailureLog) :
                /\ FailureLog[i].level = "ERROR"
                /\ FailureLog[i].args =
                      <<FailedAcks[i].op, <<"/menus/item/", FailedAcks[i]._id>>,
                        FailedAcks[i].error>>)

\* a run that ran to its end although its first acknowledgement was a failure
C1_Witness ==
    /\ LoopRanToEnd
    /\ Len(processed) = 3
    /\ ~processed[1].ok
    /\ processed[3].ok
    /\ Len(FailureLog) = 1

\* C2: the counter total is the number of acknowledgements with ok = true,
\* the number of failure entries is the number with ok = false, and a loop
\* that ran to its end has handled every acknowledgement and load() returned.
C2_CountsMatch ==
    /\ Total(c) = Len(OkAcks)
    /\ Len(FailureLog) = Len(FailedAcks)
    /\ LoopRanToEnd => (result = "returned" /\ Len(processed) = Len(sent))

\* 3 documents, 2 successes and 1 failure: completed, 1 failure entry, counter 2
C2_Witness ==
    /\ LoopRanToEnd
    /\ result = "returned"
    /\ Len(sent) = 3
    /\ Len(OkAcks) = 2
    /\ Len(FailedAcks) = 1
    /\ Len(FailureLog) = 1
    /\ Total(c) = 2

\* C3: load() never lets an exception out.  Whatever was raised inside the
\* try block, the run ends with load() returned and exactly one entry
\* 'Something went wrong', an error entry naming the exception.
C3_NothingPropagates ==
    /\ result # "raised"
    /\ pc = "done" => result = "returned"
    /\ (pc = "done" /\ exc # "none") =>
          TopLevelErrors = <<Error("Something went wrong", <<exc>>)>>
    /\ exc = "none" => TopLevelErrors = <<>>

\* a Ctrl-C during the bulk phase, caught and logged
C3_Witness ==
    /\ pc = "done"
    /\ exc = "KeyboardInterrupt"
    /\ sent # <<>>
    /\ result = "returned"

\* C4 as claimed: no engine call of the index set-up is made before the
\* transformation has completed.
C4_SetupAfterTransform == calls # <<>> => HasEntry("Merged dataframe ready")

\* C4 as amended: the stages run in the order index set-up, extraction, CSV
\* load, transform, streaming bulk submit.  Extraction is not started until
\* put-mapping has succeeded, each later stage not until the one before it
\* has completed, and no bulk request is sent before the transformation has
\* completed.
C4_SetupFirst ==
    /\ HasEntry("Extracting source files") => Succeeded("put_mapping")
    /\ pc \in {"extract", "read_csv", "dish", "item", "page_menu", "merge", "bulk"}
          => Succeeded("put_mapping")
    /\ HasEntry("Loading data from source files into memory")
          => HasEntry("Untarring and unzipping")
    /\ HasEntry("Working on Dish.csv") => HasEntry("Data loaded. Starting transformations")
    /\ HasEntry("Merging dataframes") => HasEntry("Working on Menu.csv")
    /\ CallsOf("bulk") # {} => HasEntry("Merged dataframe ready")
    /\ sent # <<>> => HasEntry("Merged dataframe ready")

\* a run through all five stages
C4_Witness ==
    /\ LoopRanToEnd
    /\ sent # <<>>
    /\ Succeeded("put_mapping")
    /\ HasEntry("Merged dataframe ready")

\* C5: the index is set up once per run, and before streaming: each set-up
\* call is made at most once, every bulk request comes after a successful
\* exists, create and put-mapping, and no call other than a bulk request
\* comes after a bulk request.
C5_SetupOnceBeforeStreaming ==
    /\ \A op \in SetupOps \cup {"exists"} : Cardinality(CallsOf(op)) <= 1
    /\ \A j \in CallsOf("bulk") :
          /\ \A op \in {"exists", "create", "put_mapping"} :
                \E i \in 1..(j - 1) : calls[i] = Call(op, TRUE)
          /\ \A k \in (j + 1)..Len(calls) : calls[k].op = "bulk"
    /\ sent # <<>> => CallsOf("bulk") # {}

\* delete, create and put-mapping, then two bulk requests
C5_Witness ==
    /\ pc = "done"
    /\ [i \in 1..Len(calls) |-> calls[i].op]
          = <<"exists", "delete", "create", "put_mapping", "bulk", "bulk">>

\* C6: a failed delete, create or put-mapping ends the run: it is the last
\* engine call of the run, nothing is submitted for indexing, and the run
\* ends with the error logged.
C6_SetupFailureIsFatal ==
    \A i \in 1..Len(calls) :
        (calls[i].op \in SetupOps /\ ~calls[i].ok) =>
            /\ i = Len(calls)
            /\ sent = <<>>
            /\ exc # "none"
            /\ pc \in {"except", "done"}
            /\ pc = "done" =>
                  /\ result = "returned"
                  /\ TopLevelErrors = <<Error("Something went wrong", <<exc>>)>>

\* a run ended by a failed create
C6_Witness ==
    /\ pc = "done"
    /\ calls = <<Call("exists", TRUE), Call("delete", TRUE), Call("create", FALSE)>>

\* C7: whatever the index was, every successful server() leaves it existing,
\* empty and with exactly the item mapping, so a second call right after the
\* first leaves the state the first left.
C7_SetupIdempotent ==
    /\ \A i \in 1..Len(returns) : returns[i] = FreshIndex
    /\ \A i, j \in 1..Len(returns) : returns[i] = returns[j]
    /\ (pc = "extract" /\ exc = "none") => menus = FreshIndex

\* two calls in a row, the first on an index that was there
C7_Witness ==
    /\ Len(returns) = 2
    /\ Len(calls) = 8
    /\ calls[2] = Call("delete", TRUE)
    /\ calls[6] = Call("delete", TRUE)
    /\ menus = returns[1]

\* C8: no stale documents.  When a run that got through the set-up has
\* ended, the index holds only documents the engine accepted in this run;
\* when its loop ran to the end, exactly those acknowledged ok in this run;
\* and a rerun acknowledged as the run before it ends with the same contents.
C8_NoStaleDocuments ==
    /\ (pc = "done" /\ returns # <<>>) => menus.docs \subseteq written
    /\ LoopRanToEnd => menus.docs = AckedIds(processed)
    /\ (LoopRanToEnd /\ prev.finished /\ prev.acked = AckedIds(processed))
          => menus.docs = prev.docs

\* a rerun over an index the run before it had filled
C8_Witness ==
    /\ run = 2
    /\ LoopRanToEnd
    /\ prev.finished
    /\ prev.docs # {}
    /\ prev.acked = AckedIds(processed)
    /\ menus.docs = prev.docs

\* C9: no rollback.  The handler makes no engine call and leaves the index
\* as it is, so what the engine accepted before the exception is still there
\* when the run has ended.
C9_NoRollback ==
    /\ [][pc = "except" => (menus' = menus /\ calls' = calls)]_vars
    /\ []((pc = "done" /\ exc # "none" /\ returns # <<>>) => menus.docs = written)

\* a run ended by an exception after two documents were written
C9_Witness ==
    /\ pc = "done"
    /\ exc # "none"
    /\ Cardinality(written) = 2
    /\ menus.docs = written

SourceColumns ==
    Range(renamed_columns) \cup {"dish_uri", "item_uri", "menu_page_uri", "menu_uri"}

ItemField(line, name) == fp.MenuItem.rows[line][ColIdx(fp.MenuItem.cols, name)]

\* C10: every action the generator yields or the run submits targets index
\* 'menus' and type 'item', carries all the columns of the merged row, and
\* has as identifier the id of the MenuItem.csv line it descends from, not
\* that line's dish or page nor the menu of the row.
C10_ActionIdentity ==
    \A item \in Range(actioner) \cup Range(sent) :
        LET a == item.action
        IN /\ a._index = "menus"
           /\ a._type = "item"
           /\ DOMAIN a._source = SourceColumns
           /\ a._id = ItemField(item.src, "id")
           /\ a._source.item_id = ItemField(item.src, "id")
           /\ a._source.dish_id = ItemField(item.src, "dish_id")
           /\ a._source.menu_page_id = ItemField(item.src, "menu_page_id")
           /\ a._id \notin {a._source.dish_id, a._source.menu_page_id,
                            a._source.menu_id}

\* the second action submitted descends from the third line of MenuItem.csv
C10_Witness ==
    /\ Len(sent) = 2
    /\ sent[2].src = 3
    /\ sent[2].action._id = 13

(***************************************************************************)
(* The joins.  The properties read the four files as they are on disk and  *)
(* the documents as the generator yields them.                             *)
(***************************************************************************)
\* what the generator of this run yields, in order
Emitted == sent \o actioner

\* load_and_tranform() returned the generator
Transformed == HasEntry("Merged dataframe ready")

CsvCell(csv, i, name) == csv.rows[i][ColIdx(csv.cols, name)]

CsvLines(csv) == 1..Len(csv.rows)

\* the lines of Menu.csv a line of MenuItem.csv reaches through its page
MenusOf(line) ==
    {m \in CsvLines(fp.Menu) :
        \E p \in CsvLines(fp.MenuPage) :
            /\ CsvCell(fp.MenuPage, p, "id") = ItemField(line, "menu_page_id")
            /\ CsvCell(fp.MenuPage, p, "menu_id") = CsvCell(fp.Menu, m, "id")}

\* the lines of Dish.csv a line of MenuItem.csv names
DishesOf(line) ==
    {d \in CsvLines(fp.Dish) :
        CsvCell(fp.Dish, d, "id") = ItemField(line, "dish_id")}

\* C11: a document is emitted for a MenuItem.csv line only if the line's
\* menu_page_id is the id of a MenuPage.csv line whose menu_id is the id of a
\* Menu.csv line (the menu the document names), and its dish_id is the id of
\* a Dish.csv line; no document names a dish whose times_appeared is 0.
C11_InnerJoin ==
    \A item \in Range(Emitted) :
        LET doc == item.action._source
        IN /\ \E m \in MenusOf(item.src) :
                 CsvCell(fp.Menu, m, "id") = doc.menu_id
           /\ \E d \in DishesOf(item.src) :
                 CsvCell(fp.Dish, d, "id") = doc.dish_id
           /\ \A d \in CsvLines(fp.Dish) :
                 CsvCell(fp.Dish, d, "id") = doc.dish_id
                     => CsvCell(fp.Dish, d, "times_appeared") # 0

\* of three lines, one of a dish that appears 0 times, one complete, one of
\* a page whose menu is missing, only the second was submitted
C11_Witness ==
    /\ fp = Directory(<<"zero", "ok", "nomenu">>)
    /\ pc = "done"
    /\ Len(sent) = 1
    /\ sent[1].src = 2

UniqueKeys(csv) ==
    \A i, j \in CsvLines(csv) :
        CsvCell(csv, i, "id") = CsvCell(csv, j, "id") => i = j

\* the line has a page, the page a menu, and its dish appears
Matches(line) ==
    /\ MenusOf(line) # {}
    /\ \E d \in DishesOf(line) : CsvCell(fp.Dish, d, "times_appeared") # 0

\* C12: when the ids of Dish.csv, MenuPage.csv, Menu.csv and MenuItem.csv are
\* unique, the generator yields exactly one document for each MenuItem.csv
\* line that has a page, a menu and a dish that appears, and none for the
\* others: at most as many documents as lines, with distinct identifiers.
C12_OneDocumentPerMatch ==
    (/\ Transformed
     /\ UniqueKeys(fp.Dish) /\ UniqueKeys(fp.MenuPage)
     /\ UniqueKeys(fp.Menu) /\ UniqueKeys(fp.MenuItem))
    => /\ \A line \in CsvLines(fp.MenuItem) :
             Cardinality({k \in 1..Len(Emitted) : Emitted[k].src = line})
                 = IF Matches(line) THEN 1 ELSE 0
       /\ Len(Emitted) <= Len(fp.MenuItem.rows)
       /\ \A j, k \in 1..Len(Emitted) :
             Emitted[j].action._id = Emitted[k].action._id => j = k

\* of three lines the first and the third match and were submitted, the
\* second names a dish that is not there
C12_Witness ==
    /\ fp = Directory(<<"ok", "nodish", "ok">>)
    /\ Transformed
    /\ Len(sent) = 2
    /\ actioner = <<>>
    /\ sent[1].action._id = 11
    /\ sent[2].action._id = 13

(***************************************************************************)
(* Projections.                                                            *)
(***************************************************************************)
\* the three per-table sections of load_and_tranform() have run
TablesDone == pc = "merge" \/ HasEntry("Merging dataframes")

\* the columns of a file other than its index column and those kept
Outside(csv, index_col, keep) == Range(csv.cols) \ ({index_col} \cup keep)

DroppedDish == Outside(fp.Dish, "id", Range(DishKeep))

\* created_at and updated_at leave the frame once reformatted
DroppedItem ==
    Outside(fp.MenuItem, "dish_id", {"id", "menu_page_id", "xpos", "ypos"})

DroppedMenu == Outside(fp.Menu, "id", Range(MenuKeep))

\* MenuPage.csv has no list in the code; these are the fields the data model
\* retains for it
PageKeep ==
    {"menu_id", "page_number", "image_id", "full_height", "full_width", "uuid"}

DroppedPage == Outside(fp.MenuPage, "id", PageKeep)

\* the column names of the '<column> ... removed' entries of the run, in
\* the order they were written
RemovedNames ==
    LET entries == EntriesWith("removed")
    IN [i \in 1..Len(entries) |-> entries[i].args[1]]

\* the columns of a file that are in a set, in the order of the file
InOrder(csv, dropped) == SelectSeq(csv.cols, LAMBDA n : n \in dropped)

RemovedCount(n) == Len(SelectSeq(RemovedNames, LAMBDA r : r = n))

\* every field of the document other than the derived ones is the cell of a
\* kept column of the line of MenuItem.csv or of a page, menu or dish line
\* chained to it; the document has no field beyond these, the two derived
\* from the name of the dish and the four URIs
FromKeptColumns(item) ==
    LET doc == item.action._source
        i   == item.src
    IN /\ DOMAIN doc = SourceColumns
       /\ doc.item_id = ItemField(i, "id")
       /\ doc.dish_id = ItemField(i, "dish_id")
       /\ doc.menu_page_id = ItemField(i, "menu_page_id")
       /\ doc.item_xpos = ItemField(i, "xpos")
       /\ doc.item_ypos = ItemField(i, "ypos")
       /\ doc.item_created_at = reformat_dates(ItemField(i, "created_at"))
       /\ doc.item_updated_at = reformat_dates(ItemField(i, "updated_at"))
       /\ \E p \in CsvLines(fp.MenuPage) :
             /\ CsvCell(fp.MenuPage, p, "id") = doc.menu_page_id
             /\ doc.menu_id = CsvCell(fp.MenuPage, p, "menu_id")
             /\ doc.menu_page_number = CsvCell(fp.MenuPage, p, "page_number")
             /\ doc.image_id = CsvCell(fp.MenuPage, p, "image_id")
             /\ doc.page_image_full_height = CsvCell(fp.MenuPage, p, "full_height")
             /\ doc.page_image_full_width = CsvCell(fp.MenuPage, p, "full_width")
             /\ doc.page_image_uuid = CsvCell(fp.MenuPage, p, "uuid")
       /\ \E m \in CsvLines(fp.Menu) :
             /\ CsvCell(fp.Menu, m, "id") = doc.menu_id
             /\ doc.menu_sponsor = CsvCell(fp.Menu, m, "sponsor")
             /\ doc.menu_location = CsvCell(fp.Menu, m, "location")
             /\ doc.menu_date = CsvCell(fp.Menu, m, "date")
             /\ doc.menu_page_count = CsvCell(fp.Menu, m, "page_count")
             /\ doc.menu_dish_count = CsvCell(fp.Menu, m, "dish_count")
       /\ \E d \in CsvLines(fp.Dish) :
             /\ CsvCell(fp.Dish, d, "id") = doc.dish_id
             /\ doc.dish_name = CsvCell(fp.Dish, d, "name")
             /\ doc.dish_menus_appeared = CsvCell(fp.Dish, d, "menus_appeared")
             /\ doc.dish_times_appeared = CsvCell(fp.Dish, d, "times_appeared")

Called(f) == arg.f = f /\ val.done

NoWhitespaceRun(str) ==
    \A i \in 1..Len(str) - 1 :
        ~(str[i] \in Whitespace /\ str[i + 1] \in Whitespace)

Trimmed(str) ==
    str # <<>> => str[1] \notin Whitespace /\ str[Len(str)] \notin Whitespace

\* C14: normalize_names returns for every string, the empty string and the
\* strings of whitespace included; applied to its own result it returns that
\* result; the result has no upper-case letter, no whitespace at either end
\* and no two whitespace characters in a row.
C14_NormalizeIdempotent ==
    Called("normalize_names") =>
        /\ ~val.raised
        /\ normalize_names(val.out) = val.out
        /\ \A i \in 1..Len(val.out) :
              val.out[i] \notin Upper /\ LowerChar(val.out[i]) = val.out[i]
        /\ Trimmed(val.out)
        /\ NoWhitespaceRun(val.out)
        /\ (\A i \in 1..Len(arg.x) : arg.x[i] \in Whitespace) => val.out = <<>>

\* 'C \ta' came out as 'c a'
C14_Witness ==
    /\ Called("normalize_names")
    /\ arg.x = <<"C", " ", "\t", "a">>
    /\ val.out = <<"c", " ", "a">>

\* the names made of the tokens of str, each at least once, in any order,
\* with at most one repetition
Rearranged(str) ==
    LET tokens == NonEmpty(SplitWhitespace(str, <<>>))
    IN {Join(t) : t \in {u \in UNION {[1..n -> Range(tokens)] :
                                         n \in 1..Len(tokens) + 1} :
                            Range(u) = Range(tokens)}}

\* C15: two normalized names with the same tokens, in another order or with
\* a token repeated, have the same fingerprint.
C15_FingerprintOfTokenSet ==
    (Called("fingerprint") /\ normalize_names(arg.x) = arg.x) =>
        \A y \in Rearranged(arg.x) :
            /\ normalize_names(y) = y
            /\ fingerprint(y) = val.out

\* 'aa a', whose rearrangements include 'a aa' and 'a aa a', came out as
\* 'a aa'
C15_Witness ==
    /\ Called("fingerprint")
    /\ arg.x = <<"a", "a", " ", "a">>
    /\ <<"a", " ", "a", "a", " ", "a">> \in Rearranged(arg.x)
    /\ val.out = <<"a", " ", "a", "a">>

Alphanumeric == Upper \cup Lower \cup Digits

\* C16: the result of fingerprint is a list of non-empty tokens joined by
\* single spaces; every token is made of letters and digits only, so no
\* other character of the argument is in a token; the tokens are distinct
\* and each is less than the next in code-point order.
C16_AlphanumericTokens ==
    Called("fingerprint") =>
        LET tokens == SplitWhitespace(val.out, <<>>)
        IN /\ val.out # <<>> =>
                 /\ \A i \in 1..Len(tokens) : tokens[i] # <<>>
                 /\ Join(tokens) = val.out
           /\ \A i \in 1..Len(tokens) :
                 \A k \in 1..Len(tokens[i]) : tokens[i][k] \in Alphanumeric
           /\ \A i, j \in 1..Len(tokens) : tokens[i] = tokens[j] => i = j
           /\ \A i \in 1..Len(tokens) - 1 : StrLess(tokens[i], tokens[i + 1])

(***************************************************************************)
(* Instants.  A timestamp denotes the instant its wall-clock fields give   *)
(* in its zone, counted in seconds from 1970-01-01 00:00:00 UTC.           *)
(***************************************************************************)
\* days from 1970-01-01 to the day y-m-d of the Gregorian calendar
DaysFromCivil(y, m, d) ==
    LET yy  == IF m <= 2 THEN y - 1 ELSE y
        era == yy \div 400
        yoe == yy - era * 400
        mp  == (m + 9) % 12
        doy == (153 * mp + 2) \div 5 + d - 1
        doe == yoe * 365 + yoe \div 4 - yoe \div 100 + doy
    IN era * 146097 + doe - 719468

\* seconds from the epoch to the wall-clock fields read as UTC
WallClock(t) ==
    DaysFromCivil(t.Y, t.m, t.d) * 86400 + t.H * 3600 + t.M * 60 + t.S

\* seconds east of UTC of the zones strptime accepts
ZoneOffset(name) ==
    CASE name \in {"UTC", "GMT"} -> 0
      [] name = "EST" -> -18000
      [] name = "EDT" -> -14400

\* seconds east of UTC of a %z field
OffsetOf(z) == CASE z = "+0000" -> 0

\* the instant the argument of reformat_dates denotes
InstantIn(t) == WallClock(t) - ZoneOffset(t.Z)

\* the instant strptime(out, '%Y%m%dT%H%M%S%z') gives
InstantOut(out) == WallClock(out) - OffsetOf(out.z)

SameFields(t, out) ==
    /\ out.Y = t.Y /\ out.m = t.m /\ out.d = t.d
    /\ out.H = t.H /\ out.M = t.M /\ out.S = t.S
    /\ out.z = "+0000"

\* C17 as stated: for every timestamp that parses, whatever its zone, the
\* result has the same year, month, day, hour, minute and second with the
\* offset +0000, and read back it is the instant the argument denotes.
C17_RoundTrip ==
    (Called("reformat_dates") /\ ~val.raised) =>
        /\ SameFields(arg.x, val.out)
        /\ InstantOut(val.out) = InstantIn(arg.x)

\* C17, amended: reformat_dates raises exactly on the timestamps strptime
\* cannot parse; otherwise the result has the same year, month, day, hour,
\* minute and second with the offset +0000, whatever the zone of the
\* argument.  Read back it is the wall-clock time of the argument taken as
\* UTC: the instant the argument denotes when its zone is UTC or GMT, and
\* an instant that differs from it by the zone's offset when the zone is a
\* local one.
C17_WallClockAsUTC ==
    Called("reformat_dates") =>
        /\ val.raised <=> ~Parses(arg.x)
        /\ ~val.raised =>
              /\ SameFields(arg.x, val.out)
              /\ InstantOut(val.out) = InstantIn(arg.x) + ZoneOffset(arg.x.Z)
              /\ arg.x.Z \in {"UTC", "GMT"} =>
                    InstantOut(val.out) = InstantIn(arg.x)
              /\ arg.x.Z \in LocalZones =>
                    InstantOut(val.out) # InstantIn(arg.x)

\* 2012-02-29 23:59:59 EST, which is 2012-03-01 04:59:59 UTC, came out as
\* 20120229T235959+0000
C17_Witness ==
    /\ Called("reformat_dates")
    /\ arg.x = [Y |-> 2012, m |-> 2, d |-> 29, H |-> 23, M |-> 59, S |-> 59,
                Z |-> "EST"]
    /\ ~val.raised
    /\ val.out.z = "+0000"
    /\ InstantIn(arg.x) = 1330577999
    /\ InstantOut(val.out) = 1330559999

(***************************************************************************)
(* Malformed values.                                                       *)
(***************************************************************************)
\* the lines of MenuItem.csv with a created_at or updated_at that
\* strptime cannot parse
BadDateLines ==
    {i \in CsvLines(fp.MenuItem) :
        \/ ~Parses(ItemField(i, "created_at"))
        \/ ~Parses(ItemField(i, "updated_at"))}

\* C18: when a line of MenuItem.csv has a created_at or updated_at that does
\* not parse, the run gets no further than the dates: the ValueError goes to
\* the handler of load(), which logs it; no document, of that line or of any
\* other, is yielded or submitted, and no bulk request is made.
C18_BadDateFailsRun ==
    (CsvPresent(fp) /\ BadDateLines # {}) =>
        /\ sent = <<>> /\ actioner = <<>>
        /\ CallsOf("bulk") = {} /\ written = {}
        /\ ~HasEntry("Date reformatting complete")
        /\ pc \notin {"page_menu", "merge", "bulk"}
        /\ HasEntry("Working on MenuItem.csv") =>
              exc = "ValueError" /\ pc \in {"except", "done"}
        /\ pc = "done" =>
              /\ exc # "none"
              /\ result = "returned"
              /\ TopLevelErrors = <<Error("Something went wrong", <<exc>>)>>

\* the second of two lines has the bad date; the run ended in the handler
\* with nothing submitted
C18_Witness ==
    /\ fp = BadUpdatedDir
    /\ BadDateLines = {2}
    /\ pc = "done"
    /\ exc = "ValueError"
    /\ Succeeded("put_mapping")
    /\ sent = <<>>

\* the merge of lines 336-370 has run on a MenuPage.csv of six columns
Merged == HasEntry("Merging dataframes") /\ DroppedPage = {}

\* the line is in the merged frame and the page it is on has the page's
\* page_number, full_height and full_width as they are in MenuPage.csv
PassedThrough(line) ==
    \E k \in 1..Len(Emitted) :
        LET doc == Emitted[k].action._source
        IN /\ Emitted[k].src = line
           /\ \E p \in CsvLines(fp.MenuPage) :
                 /\ CsvCell(fp.MenuPage, p, "id") = doc.menu_page_id
                 /\ doc.menu_page_number = CsvCell(fp.MenuPage, p, "page_number")
                 /\ doc.page_image_full_height = CsvCell(fp.MenuPage, p, "full_height")
                 /\ doc.page_image_full_width = CsvCell(fp.MenuPage, p, "full_width")

\* C19 as stated: a value that is not a number, in full_height or full_width
\* of MenuPage.csv or in menu_page_number, dish_id, item_id, menu_page_id or
\* menu_id of the merged frame, passes through: the transform completes and
\* yields the document of every line that is in the merged frame.
C19_LenientCoercion ==
    Merged =>
        /\ Transformed
        /\ \A line \in CsvLines(fp.MenuItem) : Matches(line) => PassedThrough(line)

\* the lines of the merged frame whose id is not a number
NoIdLines == {i \in CsvLines(fp.MenuItem) : Matches(i) /\ ItemField(i, "id") = NaN}

\* C19, amended: a page_number, full_height or full_width that is not a
\* number passes through unconverted and the document of the line is yielded;
\* an item_id that is not a number in any line of the merged frame makes int()
\* raise ValueError when the URIs are built: the transform fails and no
\* document, of that line or of any other, is yielded.
C19_LenientExceptIdentifiers ==
    Merged =>
        IF NoIdLines = {}
        THEN /\ Transformed
             /\ \A line \in CsvLines(fp.MenuItem) :
                   Matches(line) => PassedThrough(line)
             /\ \A item \in Range(Emitted) :
                   item.action._id # NaN /\ item.action._source.dish_id # NaN
        ELSE /\ ~Transformed
             /\ Emitted = <<>>
             /\ CallsOf("bulk") = {}
             /\ exc = "ValueError"
             /\ pc \in {"except", "done"}

\* the page has no page_number, full_height or full_width and the document
\* of its item was submitted with the three missing
C19_Witness ==
    /\ fp = NoPageSizeDir
    /\ pc = "done"
    /\ exc = "none"
    /\ Len(sent) = 1
    /\ sent[1].action._source.menu_page_number = NaN
    /\ sent[1].action._source.page_image_full_height = NaN
    /\ sent[1].action._source.page_image_full_width = NaN

(***************************************************************************)
(* End to end.                                                             *)
(***************************************************************************)
\* one dish, 'Chicken Gumbo' with id 1 appearing 5 times, one item of that
\* dish, the page of the item and the menu of the page
OneChain ==
    /\ CsvPresent(fp)
    /\ Len(fp.Dish.rows) = 1 /\ Len(fp.MenuItem.rows) = 1
    /\ Len(fp.MenuPage.rows) = 1 /\ Len(fp.Menu.rows) = 1
    /\ CsvCell(fp.Dish, 1, "id") = 1
    /\ CsvCell(fp.Dish, 1, "name") = ChickenGumbo
    /\ CsvCell(fp.Dish, 1, "times_appeared") = 5
    /\ ItemField(1, "dish_id") = 1
    /\ ItemField(1, "menu_page_id") = CsvCell(fp.MenuPage, 1, "id")
    /\ CsvCell(fp.MenuPage, 1, "menu_id") = CsvCell(fp.Menu, 1, "id")

\* C20: from such a chain the transform yields exactly one document; its
\* dish_name_fingerprint is 'chicken gumbo', its dish_uri ends in /dishes/1
\* and its item_uri in /menu_items/<id of the item>/edit.
C20_EndToEnd ==
    (OneChain /\ Transformed) =>
        /\ Len(Emitted) = 1
        /\ LET doc == Emitted[1].action._source
           IN /\ doc.dish_name_fingerprint =
                    <<"c", "h", "i", "c", "k", "e", "n", " ", "g", "u", "m", "b", "o">>
              /\ doc.dish_uri = <<"http://menus.nypl.org/", "dishes/", 1, "">>
              /\ doc.item_uri = <<"http://menus.nypl.org/", "menu_items/",
                                  ItemField(1, "id"), "/edit">>
              /\ Emitted[1].action._id = ItemField(1, "id")

\* the one document of the chain was submitted and acknowledged
C20_Witness ==
    /\ OneChain
    /\ pc = "done"
    /\ exc = "none"
    /\ Len(sent) = 1
    /\ Len(OkAcks) = 1
    /\ sent[1].action._id = 11

(***************************************************************************)
(* The log of the loop, the protocol of server(), a failed transform.      *)
(***************************************************************************)
\* C22: the loop of load() writes the 'action succeeded for N documents'
\* entry only for an acknowledgement with ok = true, so the run has as many
\* of these entries as acknowledgements with ok = true.
C22_SuccessEntryOnlyOnSuccess ==
    Len(EntriesWith("action succeeded for documents")) = Len(OkAcks)

\* the run makes the engine call op in this step
Issued(op) ==
    /\ Len(calls') = Len(calls) + 1
    /\ calls'[Len(calls')].op = op

LastCall == calls[Len(calls)]

\* C23: in a call of server() exists comes first; delete is issued only right
\* after an exists that found the index, on an index that is there; create
\* is issued only right after that delete or after an exists that found
\* nothing, on an index that is not there; put_mapping is issued only right
\* after a create that succeeded.
C23_SetupProtocol ==
    [][/\ Issued("exists") => calls = <<>>
       /\ Issued("delete") =>
             /\ calls # <<>> /\ LastCall = Call("exists", TRUE)
             /\ menus.exists
       /\ Issued("create") =>
             /\ calls # <<>>
             /\ LastCall \in {Call("exists", TRUE), Call("delete", TRUE)}
             /\ LastCall.op = "exists" <=> Len(calls) = 1
             /\ ~menus.exists
       /\ Issued("put_mapping") =>
             /\ calls # <<>> /\ LastCall = Call("create", TRUE)
             /\ menus = EsCreate(menus)]_vars

\* server() found the index, deleted it, created it and mapped it
C23_Witness ==
    /\ pc = "extract"
    /\ calls = <<Call("exists", TRUE), Call("delete", TRUE),
                 Call("create", TRUE), Call("put_mapping", TRUE)>>
    /\ menus = FreshIndex

\* the classes of the exceptions load_and_tranform() raises
TransformErrors == {"IndexError", "IOError", "KeyError", "ValueError"}

\* C24: when load_and_tranform() has raised, the index 'menus' exists, holds
\* no document and has exactly the item mapping, whatever it held before the
\* run, and the run has submitted no action to the engine.
C24_FailedTransformLeavesEmptyIndex ==
    exc \in TransformErrors =>
        /\ pc \in {"except", "done"}
        /\ Succeeded("put_mapping")
        /\ menus = FreshIndex
        /\ sent = <<>>
        /\ CallsOf("bulk") = {}
        /\ written = {}

\* the directory has no archive; the index the run found and deleted is
\* there again, empty, at the end of the run
C24_Witness ==
    /\ fp = NoArchive
    /\ run = 1
    /\ pc = "done"
    /\ exc = "IndexError"
    /\ Succeeded("delete")
    /\ menus = FreshIndex

(***************************************************************************)
(* Two runs at once.                                                       *)
(***************************************************************************)
\* the second run has made the index: its create succeeded
PeerCreated ==
    /\ peer.pc \in {"put_mapping", "transform", "bulk", "done"}
    /\ peer.pc = "done" => peer.exc \in {"none", "NotFoundError"} \cup TransformErrors

\* the first run has made the index: its create succeeded, or a request of
\* its loop created the index on the fly
FirstCreated == Succeeded("create") \/ written # {}

\* the second run issues create
PeerIssuesCreate == peer.pc = "create" /\ peer' # peer

\* the second run issues delete
PeerIssuesDelete == peer.pc = "delete" /\ peer' # peer

\* C21: two runs on the same index race on its setup.  A run that issues
\* create while the index exists is refused with RequestError and ends
\* without touching the index, and the index it met was made by the other
\* run after this run had looked or deleted; a delete of the second run
\* removes every document of the index, those the first run has written
\* among them, and a document the engine accepted from the first run is
\* missing from the index only by such a delete.
C21_RaceOnSetup ==
    /\ [][/\ (PeerIssuesCreate /\ menus.exists) =>
                /\ peer'.exc = "RequestError" /\ peer'.pc = "done"
                /\ menus' = menus
                /\ FirstCreated
          /\ (Issued("create") /\ menus.exists) =>
                /\ exc' = "RequestError" /\ pc' = "except"
                /\ menus' = menus
                /\ PeerCreated
          /\ (PeerIssuesDelete /\ menus.exists) =>
                /\ menus' = Absent
                /\ peer'.lost = menus.docs \cap written]_vars
    /\ [](peer.exc = "RequestError" => FirstCreated)
    /\ [](exc = "RequestError" => PeerCreated)
    /\ []((written \ menus.docs) \subseteq peer.lost)

\* both races in one interleaving: the delete of the second run removed
\* documents the first run had written, the next request of the first run
\* made the index again, and the create of the second run met it; the first
\* run ended without an error
C21_Witness ==
    /\ peer.lost # {}
    /\ peer.exc = "RequestError"
    /\ LoopRanToEnd
    /\ Len(OkAcks) = MaxItems
    /\ ~(written \subseteq menus.docs)

====
